---------------------------- MODULE Spec2Model ----------------------------
\* Model of strawberryfields/backends/bosonicbackend/ops.py: the block
\* partition (chop_in_blocks and variants) and reassembly (reassemble and
\* variants) primitives.
\*
\* An ndarray is a record [shape, data]: shape is the tuple of dimensions
\* and data the nested 0-based functions of its entries, so that an empty
\* array keeps its shape ((0, k) and (k, 0) are different arrays).
\* A Python list of indices (idtodelete) is a TLA+ sequence.  Entries are
\* integers: the routines only move entries and write the fill values 0
\* and 1, they never compute with them.
\*
\* NumPy is modelled as of 1.19 and later: an integer index i of an axis
\* of size N is valid iff -N <= i < N, a negative index counts from the
\* end, and np.delete as well as fancy indexing raise IndexError on any
\* other index.  Python sets are modelled as CPython implements them
\* (Objects/setobject.c): the order in which a set is iterated is the
\* order of its hash table's slots.
EXTENDS Integers, Sequences, FiniteSets, TLC

\* Largest full dimension n for which every index sequence is explored.
MaxN == 3
\* A full dimension beyond the smallest hash table of a Python set.
BigN == 9
\* Largest batch size (n_weights).
MaxWeights == 2

---------------------------------------------------------------------------
\* Exceptions and array primitives

IndexError == [exc |-> "IndexError"]

IsExc(x) == "exc" \in DOMAIN x

\* np.arange(n) as a set of indices.
arange(n) == 0 .. (n - 1)

\* len(x) of an array: the size of its first axis.
len(x) == x.shape[1]

Max(a, b) == IF a >= b THEN a ELSE b

\* The elements of a Python list.
Elems(s) == {s[p] : p \in DOMAIN s}

\* The ascending enumeration of a finite set of integers.
Ascending(S) ==
    [p \in 1 .. Cardinality(S) |->
        CHOOSE x \in S : Cardinality({y \in S : y < x}) = p - 1]

\* NumPy's bounds check and wrap-around of one index into an axis of size N.
InBounds(i, N) == (0 - N) <= i /\ i < N

Wrap(i, N) == IF i < 0 THEN i + N ELSE i

AllInBounds(obj, N) == \A p \in DOMAIN obj : InBounds(obj[p], N)

\* Selection of the positions ix (a sequence of non-negative indices) along
\* one axis of nested data.
RECURSIVE TakeData(_, _, _)
TakeData(d, ix, axis) ==
    IF axis = 0
    THEN [i \in arange(Len(ix)) |-> d[ix[i + 1]]]
    ELSE [i \in DOMAIN d |-> TakeData(d[i], ix, axis - 1)]

Take(arr, ix, axis) ==
    [shape |-> [arr.shape EXCEPT ![axis + 1] = Len(ix)],
     data  |-> TakeData(arr.data, ix, axis)]

\* arr[..., obj, ...]: fancy indexing with a list of integers along one axis.
FancyIndex(arr, obj, axis) ==
    LET N == arr.shape[axis + 1]
    IN  IF ~AllInBounds(obj, N) THEN IndexError
        ELSE Take(arr, [p \in DOMAIN obj |-> Wrap(obj[p], N)], axis)

\* np.delete(arr, obj, axis): a mask over the axis is cleared at every index
\* of obj (any order, repeats allowed) and the remaining positions are kept
\* in their original ascending order.
np_delete(arr, obj, axis) ==
    LET N    == arr.shape[axis + 1]
        gone == {Wrap(obj[p], N) : p \in DOMAIN obj}
    IN  IF ~AllInBounds(obj, N) THEN IndexError
        ELSE Take(arr, Ascending(arange(N) \ gone), axis)

\* Array constructors.
Vector(n, F(_)) ==
    [shape |-> <<n>>, data |-> [i \in arange(n) |-> F(i)]]

Matrix(r, c, F(_, _)) ==
    [shape |-> <<r, c>>,
     data  |-> [i \in arange(r) |-> [j \in arange(c) |-> F(i, j)]]]

\* A batch (leading axis) of arrays of one common shape sh.
Batch(slices, sh) ==
    [shape |-> <<Len(slices)>> \o sh,
     data  |-> [w \in arange(Len(slices)) |-> slices[w + 1].data]]

\* arr[w] of a batch.
Slice(arr, w) == [shape |-> Tail(arr.shape), data |-> arr.data[w]]

---------------------------------------------------------------------------
\* CPython's set, for set(np.arange(ntot)) - set(idtodelete) and its
\* iteration.  A set is its hash table: [mask, table, fill, used], table a
\* function from the slots 0 .. mask to a key, NULL or DUMMY.  The keys
\* stored are elements of np.arange(ntot): non-negative integers, each its
\* own hash.  The right operand set(idtodelete) is only asked for its size
\* and for membership, and is modelled by the set of its elements.

PySet_MINSIZE == 8
LINEAR_PROBES == 9
PERTURB_SHIFT == 5
\* The key of a slot never used, and of a slot whose key was discarded.
NULL == -1
DUMMY == -2

\* The first unused slot on the probe sequence that starts at slot i:
\* slot i and, when they do not run past the table, the LINEAR_PROBES slots
\* after it, then the next slot the perturbed recurrence gives.
RECURSIVE set_probe(_, _, _, _)
set_probe(table, mask, i, perturb) ==
    LET probes == IF i + LINEAR_PROBES <= mask THEN LINEAR_PROBES ELSE 0
        unused == {j \in 0 .. probes : table[i + j] = NULL}
        p      == perturb \div (2 ^ PERTURB_SHIFT)
    IN  IF unused # {}
        THEN i + (CHOOSE j \in unused : \A k \in unused : j <= k)
        ELSE set_probe(table, mask, (i * 5 + 1 + p) % (mask + 1), p)

set_insert_clean(table, mask, key) ==
    [table EXCEPT ![set_probe(table, mask, key % (mask + 1), key)] = key]

\* The keys of a table in the order of its slots (set_next).
set_iter(so) ==
    LET live == {i \in 0 .. so.mask : so.table[i] >= 0}
        slot == Ascending(live)
    IN  [p \in 1 .. Cardinality(live) |-> so.table[slot[p]]]

RECURSIVE set_newsize(_, _)
set_newsize(size, minused) ==
    IF size <= minused THEN set_newsize(size * 2, minused) ELSE size

RECURSIVE set_insert_all(_, _, _, _)
set_insert_all(table, mask, keys, p) ==
    IF p > Len(keys) THEN table
    ELSE set_insert_all(set_insert_clean(table, mask, keys[p]), mask, keys, p + 1)

\* A new table of the first power of two above minused, the live keys
\* re-inserted in the order of the old slots; dummies are dropped.
set_table_resize(so, minused) ==
    LET newmask == set_newsize(PySet_MINSIZE, minused) - 1
        empty   == [i \in 0 .. newmask |-> NULL]
    IN  [mask  |-> newmask,
         table |-> set_insert_all(empty, newmask, set_iter(so), 1),
         fill  |-> so.used,
         used  |-> so.used]

\* set_add_entry for a table without dummies: a key already present is
\* left alone; a new key takes the first unused slot of its probe sequence,
\* and the table is resized once it is three fifths full.
set_add_entry(so, key) ==
    IF \E i \in 0 .. so.mask : so.table[i] = key THEN so
    ELSE LET added == [so EXCEPT !.table = set_insert_clean(so.table, so.mask, key),
                                  !.fill  = so.fill + 1,
                                  !.used  = so.used + 1]
         IN  IF added.fill * 5 < added.mask * 3 THEN added
             ELSE set_table_resize(added,
                      IF added.used > 50000 THEN added.used * 2 ELSE added.used * 4)

set_new ==
    [mask  |-> PySet_MINSIZE - 1,
     table |-> [i \in 0 .. (PySet_MINSIZE - 1) |-> NULL],
     fill  |-> 0,
     used  |-> 0]

RECURSIVE set_update(_, _, _)
set_update(so, keys, p) ==
    IF p > Len(keys) THEN so
    ELSE set_update(set_add_entry(so, keys[p]), keys, p + 1)

\* set(np.arange(n)): the keys 0, 1, ..., n-1 added in this order.
set_of_arange(n) == set_update(set_new, [p \in 1 .. n |-> p - 1], 1)

\* set_merge into a new set: the target is sized for twice the keys when
\* they would fill three fifths of the smallest table, then takes the source
\* slot for slot if both tables have one size, else key by key.
set_copy(so) ==
    LET target == IF so.used * 5 >= set_new.mask * 3
                  THEN set_table_resize(set_new, so.used * 2)
                  ELSE set_new
    IN  IF target.mask = so.mask /\ so.fill = so.used
        THEN so
        ELSE [target EXCEPT
                 !.table = set_insert_all(target.table, target.mask, set_iter(so), 1),
                 !.fill  = so.used,
                 !.used  = so.used]

\* set_difference_update_internal: every key of other is discarded, its
\* slot left a dummy; the table is rebuilt when more than a quarter of its
\* slots are dummies.
set_difference_update(so, other) ==
    LET hit  == {i \in 0 .. so.mask : so.table[i] >= 0 /\ so.table[i] \in other}
        left == [so EXCEPT
                    !.table = [i \in 0 .. so.mask |->
                                  IF i \in hit THEN DUMMY ELSE so.table[i]],
                    !.used  = so.used - Cardinality(hit)]
    IN  IF left.fill - left.used <= left.mask \div 4 THEN left
        ELSE set_table_resize(left,
                 IF left.used > 50000 THEN left.used * 2 ELSE left.used * 4)

\* so - other (set_difference): a copy with other's keys discarded when so
\* is more than four times as large as other, else a new set to which the
\* keys of so that are not in other are added in the order of so's slots.
set_difference(so, other) ==
    IF so.used \div 4 > Cardinality(other)
    THEN set_difference_update(set_copy(so), other)
    ELSE LET keys == set_iter(so)
             kept == {p \in DOMAIN keys : keys[p] \notin other}
             pos  == Ascending(kept)
         IN  set_update(set_new, [q \in 1 .. Cardinality(kept) |-> keys[pos[q]]], 1)

\* The iteration order of set(np.arange(ntot)) - set(idtodelete), which is
\* what list(...) and enumerate(...) of it see.
idtokeep_order(ntot, idtodelete) ==
    set_iter(set_difference(set_of_arange(ntot), Elems(idtodelete)))

---------------------------------------------------------------------------
\* The operations of ops.py.  Each returns Return(<<arrays>>) or the
\* exception that ended it.

ValueError == [exc |-> "ValueError"]

Return(val) == [exc |-> "none", val |-> val]

Raise(e) == [exc |-> e.exc, val |-> <<>>]

\* The position (from 0, as enumerate counts) of x in a list.
IndexOf(ind, x) == (CHOOSE p \in DOMAIN ind : ind[p] = x) - 1

\* chop_in_blocks, lines 25-27: idtodelete deleted along both axes.
chop_A(m, idtodelete) ==
    LET rows == np_delete(m, idtodelete, 0)
    IN  IF IsExc(rows) THEN rows ELSE np_delete(rows, idtodelete, 1)

\* chop_B with the two axes exchanged: the rows at idtodelete, their columns
\* at idtodelete deleted.
chop_B_axes_swapped(m, idtodelete) ==
    LET rows == FancyIndex(m, idtodelete, 0)
    IN  IF IsExc(rows) THEN rows ELSE np_delete(rows, idtodelete, 1)

\* chop_in_blocks, line 28: the columns at idtodelete, their rows at
\* idtodelete deleted.
chop_B(m, idtodelete) ==
    LET cols == FancyIndex(m, idtodelete, 1)
    IN  IF IsExc(cols) THEN cols ELSE np_delete(cols, idtodelete, 0)

\* chop_C over sorted(idtodelete) instead of idtodelete as given.
chop_C_sorted(m, idtodelete) ==
    LET n   == len(m)
        k   == Len(idtodelete)
        asc == Ascending({Wrap(idtodelete[p], n) : p \in DOMAIN idtodelete})
    IN  IF ~AllInBounds(idtodelete, n) THEN IndexError
        ELSE Matrix(Len(asc), Len(asc), LAMBDA i, j : m.data[asc[i + 1]][asc[j + 1]])

\* chop_in_blocks, lines 29-32: C[localindex, localindex1] =
\* m[globalindex, globalindex1] over enumerate(idtodelete), twice.
chop_C(m, idtodelete) ==
    LET n == len(m)
        k == Len(idtodelete)
    IN  IF ~AllInBounds(idtodelete, n) THEN IndexError
        ELSE Matrix(k, k, LAMBDA i, j :
                 m.data[Wrap(idtodelete[i + 1], n)][Wrap(idtodelete[j + 1], n)])

chop_in_blocks(m, idtodelete) ==
    LET A == chop_A(m, idtodelete)
        B == chop_B(m, idtodelete)
        C == chop_C(m, idtodelete)
    IN  IF IsExc(A) THEN Raise(A)
        ELSE IF IsExc(B) THEN Raise(B)
        ELSE IF IsExc(C) THEN Raise(C)
        ELSE Return(<<A, B, C>>)

\* chop_in_blocks_multi, lines 41-43.
chop_multi_A(m, idtodelete) ==
    LET rows == np_delete(m, idtodelete, 1)
    IN  IF IsExc(rows) THEN rows ELSE np_delete(rows, idtodelete, 2)

\* chop_multi_B without the deletion of the rows at idtodelete.
chop_multi_B_all_rows(m, idtodelete) == FancyIndex(m, idtodelete, 2)

\* chop_in_blocks_multi, line 44.
chop_multi_B(m, idtodelete) ==
    LET cols == FancyIndex(m, idtodelete, 2)
    IN  IF IsExc(cols) THEN cols ELSE np_delete(cols, idtodelete, 1)

\* chop_in_blocks_multi, line 45: m[:,idtodelete,:][:,:,idtodelete].
chop_multi_C(m, idtodelete) ==
    LET rows == FancyIndex(m, idtodelete, 1)
    IN  IF IsExc(rows) THEN rows ELSE FancyIndex(rows, idtodelete, 2)

chop_in_blocks_multi(m, idtodelete) ==
    LET A == chop_multi_A(m, idtodelete)
        B == chop_multi_B(m, idtodelete)
        C == chop_multi_C(m, idtodelete)
    IN  IF IsExc(A) THEN Raise(A)
        ELSE IF IsExc(B) THEN Raise(B)
        ELSE IF IsExc(C) THEN Raise(C)
        ELSE Return(<<A, B, C>>)

chop_in_blocks_vector(v, idtodelete) ==
    LET idtokeep == idtokeep_order(len(v), idtodelete)
        va       == FancyIndex(v, idtokeep, 0)
        vb       == FancyIndex(v, idtodelete, 0)
    IN  IF IsExc(va) THEN Raise(va)
        ELSE IF IsExc(vb) THEN Raise(vb)
        ELSE Return(<<va, vb>>)

chop_in_blocks_vector_multi(v, idtodelete) ==
    LET idtokeep == idtokeep_order(len(Slice(v, 0)), idtodelete)
        va       == FancyIndex(v, idtokeep, 1)
        vb       == FancyIndex(v, idtodelete, 1)
    IN  IF IsExc(va) THEN Raise(va)
        ELSE IF IsExc(vb) THEN Raise(vb)
        ELSE Return(<<va, vb>>)

\* reassemble with ntot taken from the distinct entries of idtodelete.
reassemble_distinct(A, idtodelete) ==
    LET ntot == len(A) + Cardinality(Elems(idtodelete))
        ind  == idtokeep_order(ntot, idtodelete)
        ones == {Wrap(idtodelete[p], ntot) : p \in DOMAIN idtodelete}
    IN  IF Len(ind) > 0 /\ (Len(ind) > A.shape[1] \/ Len(ind) > A.shape[2])
        THEN Raise(IndexError)
        ELSE IF ~AllInBounds(idtodelete, ntot) THEN Raise(IndexError)
        ELSE Return(<<Matrix(ntot, ntot, LAMBDA p, q :
                 IF p = q /\ p \in ones THEN 1
                 ELSE IF p \in Elems(ind) /\ q \in Elems(ind)
                      THEN A.data[IndexOf(ind, p)][IndexOf(ind, q)]
                      ELSE 0)>>)

\* reassemble.  The double loop reads A[i, j] for every pair of positions
\* of ind, which raises IndexError as soon as ind is longer than A; the
\* diagonal is then written at every (wrapped) index of idtodelete.
reassemble(A, idtodelete) ==
    LET ntot == len(A) + Len(idtodelete)
        ind  == idtokeep_order(ntot, idtodelete)
        ones == {Wrap(idtodelete[p], ntot) : p \in DOMAIN idtodelete}
    IN  IF Len(ind) > 0 /\ (Len(ind) > A.shape[1] \/ Len(ind) > A.shape[2])
        THEN Raise(IndexError)
        ELSE IF ~AllInBounds(idtodelete, ntot) THEN Raise(IndexError)
        ELSE Return(<<Matrix(ntot, ntot, LAMBDA p, q :
                 IF p = q /\ p \in ones THEN 1
                 ELSE IF p \in Elems(ind) /\ q \in Elems(ind)
                      THEN A.data[IndexOf(ind, p)][IndexOf(ind, q)]
                      ELSE 0)>>)

\* reassemble_multi.  A[:,0,0] raises IndexError on a batch of empty
\* matrices.  The assignment through np.ix_ broadcasts A to the kept block:
\* a block of another size is a ValueError unless A's matrices are 1x1.
reassemble_multi(A, idtodelete) ==
    LET nweights == len(A)
        r        == A.shape[2]
        ntot     == r + Len(idtodelete)
        ind      == idtokeep_order(ntot, idtodelete)
        at(i)    == IF r = 1 THEN 0 ELSE i
    IN  IF A.shape[2] = 0 \/ A.shape[3] = 0 THEN Raise(IndexError)
        ELSE IF Len(ind) # r /\ r # 1 THEN Raise(ValueError)
        ELSE Return(<<[shape |-> <<nweights, ntot, ntot>>,
                       data  |-> [w \in arange(nweights) |->
                                 [p \in arange(ntot) |-> [q \in arange(ntot) |->
                           IF p \in Elems(ind) /\ q \in Elems(ind)
                           THEN A.data[w][at(IndexOf(ind, p))][at(IndexOf(ind, q))]
                           ELSE IF p = q THEN 1 ELSE 0]]]]>>)

\* reassemble_vector writing newv[j] (the position in ind) instead of
\* newv[j1] (the index itself).
reassemble_vector_packed(va, idtodelete) ==
    LET ntot == len(va) + Len(idtodelete)
        ind  == idtokeep_order(ntot, idtodelete)
    IN  IF Len(ind) > len(va) THEN Raise(IndexError)
        ELSE Return(<<Vector(ntot, LAMBDA p :
                 IF p < Len(ind) THEN va.data[p] ELSE 0)>>)

\* reassemble_vector.  The loop reads va[j] for every position of ind.
reassemble_vector(va, idtodelete) ==
    LET ntot == len(va) + Len(idtodelete)
        ind  == idtokeep_order(ntot, idtodelete)
    IN  IF Len(ind) > len(va) THEN Raise(IndexError)
        ELSE Return(<<Vector(ntot, LAMBDA p :
                 IF p \in Elems(ind) THEN va.data[IndexOf(ind, p)] ELSE 0)>>)

\* reassemble_vector_multi.  va[:,0] raises IndexError on a batch of empty
\* vectors; newv[:,ind] = va broadcasts like the matrix case.
reassemble_vector_multi(va, idtodelete) ==
    LET nweights == len(va)
        r        == va.shape[2]
        ntot     == r + Len(idtodelete)
        ind      == idtokeep_order(ntot, idtodelete)
        at(i)    == IF r = 1 THEN 0 ELSE i
    IN  IF r = 0 THEN Raise(IndexError)
        ELSE IF Len(ind) # r /\ r # 1 THEN Raise(ValueError)
        ELSE Return(<<[shape |-> <<nweights, ntot>>,
                       data  |-> [w \in arange(nweights) |-> [p \in arange(ntot) |->
                           IF p \in Elems(ind)
                           THEN va.data[w][at(IndexOf(ind, p))]
                           ELSE 0]]]>>)

---------------------------------------------------------------------------
\* Inputs.  The routines treat entries as opaque, so the matrices are a
\* tagged one (every entry names its position and differs from the fill
\* values), tagged ones that carry the fill pattern (1 on the diagonal, 0
\* elsewhere) on the rows and columns of an index set, and constant ones.

Tagged(size) == Matrix(size, size, LAMBDA i, j : 2 + i * size + j)

WithFill(m, S) ==
    Matrix(m.shape[1], m.shape[2], LAMBDA i, j :
        IF i \in S \/ j \in S THEN (IF i = j THEN 1 ELSE 0) ELSE m.data[i][j])

Const(size, c) == Matrix(size, size, LAMBDA i, j : c)

TaggedVector(size) == Vector(size, LAMBDA i : 2 + i)

ConstVector(size, c) == Vector(size, LAMBDA i : c)

Sizes == (0 .. MaxN) \cup {BigN}

\* The index lists tried on a full dimension size: up to MaxN every list of
\* at most size entries of -1 .. size (repeats, a negative and a too large
\* entry included, in every order); above, every subset of the indices,
\* ascending.
IndexLists(size) ==
    IF size <= MaxN
    THEN UNION {[1 .. k -> (0 - 1) .. size] : k \in 0 .. size}
    ELSE {Ascending(S) : S \in SUBSET arange(size)}

FillSets(size, idx) ==
    IF size <= MaxN THEN SUBSET arange(size)
    ELSE {{}, Elems(idx) \cap arange(size)}

FullMatrices(size, idx) ==
    {WithFill(Tagged(size), S) : S \in FillSets(size, idx)} \cup {Const(size, 1)}

ReducedMatrices(r) == {Tagged(r), Const(r, 0), Const(r, 1)}

Vectors(size) == {TaggedVector(size), ConstVector(size, 0), ConstVector(size, 1)}

\* Batches of 1 .. MaxWeights slices: the windows of a cyclic family.
Windows(family, sh) ==
    {Batch([w \in 1 .. W |-> family[((s + w - 2) % Len(family)) + 1]], sh)
        : W \in 1 .. MaxWeights, s \in 1 .. Len(family)}

MatrixBatches(size, idx) ==
    Windows(<<Tagged(size), Const(size, 1),
              WithFill(Tagged(size), Elems(idx) \cap arange(size))>>,
            <<size, size>>)

ReducedBatches(r) ==
    Windows(<<Tagged(r), Const(r, 1), Const(r, 0)>>, <<r, r>>)

VectorBatches(size) ==
    Windows(<<TaggedVector(size), ConstVector(size, 1), ConstVector(size, 0)>>,
            <<size>>)

---------------------------------------------------------------------------
\* The state: one call of one operation on idtodelete, and then, after a
\* partition, the reassembly of its kept part.
\*   n          the full dimension the caller works with
\*   idtodelete the index list passed to every call
\*   fn         the operation called last ("none" before the first call)
\*   arg        its array argument
\*   ret        what it returned or raised
\*   via        the partition whose kept part arg is ("input" otherwise)
\*   orig       the array that partition was given

VARIABLES n, idtodelete, fn, arg, ret, via, orig

vars == <<n, idtodelete, fn, arg, ret, via, orig>>

NoArray == [shape |-> <<>>, data |-> <<>>]

Init ==
    /\ n \in Sizes
    /\ idtodelete \in IndexLists(n)
    /\ fn = "none"
    /\ arg = NoArray
    /\ ret = Return(<<>>)
    /\ via = "input"
    /\ orig = NoArray

\* The size of the reduced object that goes with idtodelete.
Reduced == Max(n - Len(idtodelete), 0)

Call(name, x, result) ==
    /\ fn = "none"
    /\ fn' = name
    /\ arg' = x
    /\ ret' = result
    /\ UNCHANGED <<n, idtodelete, via, orig>>

ChopInBlocks ==
    \E m \in FullMatrices(n, idtodelete) :
        Call("chop_in_blocks", m, chop_in_blocks(m, idtodelete))

ChopInBlocksMulti ==
    \E m \in MatrixBatches(n, idtodelete) :
        Call("chop_in_blocks_multi", m, chop_in_blocks_multi(m, idtodelete))

ChopInBlocksVector ==
    \E v \in Vectors(n) :
        Call("chop_in_blocks_vector", v, chop_in_blocks_vector(v, idtodelete))

ChopInBlocksVectorMulti ==
    \E v \in VectorBatches(n) :
        Call("chop_in_blocks_vector_multi", v,
             chop_in_blocks_vector_multi(v, idtodelete))

Reassemble ==
    \E A \in ReducedMatrices(Reduced) :
        Call("reassemble", A, reassemble(A, idtodelete))

ReassembleMulti ==
    \E A \in ReducedBatches(Reduced) :
        Call("reassemble_multi", A, reassemble_multi(A, idtodelete))

ReassembleVector ==
    \E va \in Vectors(Reduced) :
        Call("reassemble_vector", va, reassemble_vector(va, idtodelete))

ReassembleVectorMulti ==
    \E va \in VectorBatches(Reduced) :
        Call("reassemble_vector_multi", va,
             reassemble_vector_multi(va, idtodelete))

\* reassemble(chop_in_blocks(m, idtodelete)[0], idtodelete)
ReassembleKept ==
    /\ fn = "chop_in_blocks"
    /\ ret.exc = "none"
    /\ fn' = "reassemble"
    /\ arg' = ret.val[1]
    /\ ret' = reassemble(ret.val[1], idtodelete)
    /\ via' = fn
    /\ orig' = arg
    /\ UNCHANGED <<n, idtodelete>>

\* reassemble_vector(chop_in_blocks_vector(v, idtodelete)[0], idtodelete)
ReassembleVectorKept ==
    /\ fn = "chop_in_blocks_vector"
    /\ ret.exc = "none"
    /\ fn' = "reassemble_vector"
    /\ arg' = ret.val[1]
    /\ ret' = reassemble_vector(ret.val[1], idtodelete)
    /\ via' = fn
    /\ orig' = arg
    /\ UNCHANGED <<n, idtodelete>>

Next ==
    \/ ChopInBlocks
    \/ ChopInBlocksMulti
    \/ ChopInBlocksVector
    \/ ChopInBlocksVectorMulti
    \/ Reassemble
    \/ ReassembleMulti
    \/ ReassembleVector
    \/ ReassembleVectorMulti
    \/ ReassembleKept
    \/ ReassembleVectorKept

Spec == Init /\ [][Next]_vars

---------------------------------------------------------------------------
\* Vocabulary of the claims.

\* idx is a list of distinct indices in [0, size).
Valid(idx, size) ==
    /\ \A p \in DOMAIN idx : idx[p] \in arange(size)
    /\ \A p, q \in DOMAIN idx : idx[p] = idx[q] => p = q

\* idx has an entry outside [0, size) or the same entry twice.
Malformed(idx, size) ==
    \/ \E p \in DOMAIN idx : idx[p] \notin arange(size)
    \/ \E p, q \in DOMAIN idx : p # q /\ idx[p] = idx[q]

\* The indices of [0, size) not in idx, ascending.
Kept(idx, size) == Ascending(arange(size) \ Elems(idx))

\* m carries the fill pattern on the rows and columns of idx.
HasFill(m, idx) ==
    \A p \in arange(m.shape[1]), q \in arange(m.shape[2]) :
        (p \in Elems(idx) \/ q \in Elems(idx)) =>
            m.data[p][q] = (IF p = q THEN 1 ELSE 0)

\* The blocks the partition of m by idx is specified to return.
BlockA(m, idx) ==
    LET kept == Kept(idx, len(m))
    IN  Matrix(Len(kept), Len(kept), LAMBDA i, j : m.data[kept[i + 1]][kept[j + 1]])

BlockB(m, idx) ==
    LET kept == Kept(idx, len(m))
    IN  Matrix(Len(kept), Len(idx), LAMBDA i, j : m.data[kept[i + 1]][idx[j + 1]])

BlockC(m, idx) ==
    Matrix(Len(idx), Len(idx), LAMBDA i, j : m.data[idx[i + 1]][idx[j + 1]])

\* The full matrix the reassembly of A around idx is specified to return.
Filled(A, idx) ==
    LET ntot == len(A) + Len(idx)
        kept == Kept(idx, ntot)
    IN  Matrix(ntot, ntot, LAMBDA p, q :
            IF p \in Elems(kept) /\ q \in Elems(kept)
            THEN A.data[IndexOf(kept, p)][IndexOf(kept, q)]
            ELSE IF p = q THEN 1 ELSE 0)

\* The set's iteration order of the kept indices is not the ascending one.
Scrambled(size, idx) == idtokeep_order(size, idx) # Kept(idx, size)

---------------------------------------------------------------------------
C2_ReassembleFill ==
    (fn = "reassemble" /\ Valid(idtodelete, len(arg) + Len(idtodelete))) =>
        ret = Return(<<Filled(arg, idtodelete)>>)

\* C3: for distinct in-range idtodelete, chop_in_blocks_vector returns va =
\* v at the kept indices in ascending order and vb = v at idtodelete in the
\* given order.
C3_ChopVector ==
    (fn = "chop_in_blocks_vector" /\ Valid(idtodelete, len(arg))) =>
        LET kept == Kept(idtodelete, len(arg))
        IN  ret = Return(<<Vector(Len(kept), LAMBDA i : arg.data[kept[i + 1]]),
                           Vector(Len(idtodelete),
                                  LAMBDA j : arg.data[idtodelete[j + 1]])>>)

C5_VectorRoundTrip ==
    (/\ fn = "reassemble_vector"
     /\ via = "chop_in_blocks_vector"
     /\ Valid(idtodelete, len(orig))) =>
        ret = Return(<<Vector(len(orig), LAMBDA p :
                  IF p \in Elems(idtodelete) THEN 0 ELSE orig.data[p])>>)

C5_Witness ==
    /\ fn = "reassemble_vector"
    /\ via = "chop_in_blocks_vector"
    /\ orig = TaggedVector(BigN)
    /\ Valid(idtodelete, BigN)
    /\ Scrambled(BigN, idtodelete)
    /\ ret.exc = "none"

\* C6: reassemble(chop_in_blocks(m, idx)[0], idx) has the size of m, and
\* equals m exactly when m carries the fill pattern on idx.
C6_MatrixRoundTrip ==
    (/\ fn = "reassemble"
     /\ via = "chop_in_blocks"
     /\ Valid(idtodelete, len(orig))) =>
        /\ ret.exc = "none"
        /\ ret.val[1].shape = orig.shape
        /\ (ret.val[1] = orig) <=> HasFill(orig, idtodelete)

\* C7: chop_in_blocks raises InvalidIndex, and returns nothing, on an
\* idtodelete with an entry outside [0, n) or a repeated entry.
C7_ChopRejects ==
    (fn = "chop_in_blocks" /\ Malformed(idtodelete, len(arg))) =>
        ret = Raise(IndexError)

\* C8: on a batch of one slice, reassemble_multi, reassemble_vector_multi
\* and chop_in_blocks_vector_multi return the batch of the one result of
\* reassemble, reassemble_vector and chop_in_blocks_vector on that slice,
\* for every k from 0 to n.
C8_BatchOfOne ==
    LET single(x) ==
            CASE fn = "reassemble_multi" -> reassemble(x, idtodelete)
              [] fn = "reassemble_vector_multi" -> reassemble_vector(x, idtodelete)
              [] OTHER -> chop_in_blocks_vector(x, idtodelete)
        size == IF fn = "chop_in_blocks_vector_multi"
                THEN arg.shape[2] ELSE arg.shape[2] + Len(idtodelete)
    IN  (/\ fn \in {"reassemble_multi", "reassemble_vector_multi",
                    "chop_in_blocks_vector_multi"}
         /\ len(arg) = 1
         /\ Valid(idtodelete, size)) =>
            LET one == single(Slice(arg, 0))
            IN  /\ one.exc = "none"
                /\ ret = Return([b \in DOMAIN one.val |->
                                    Batch(<<one.val[b]>>, one.val[b].shape)])

C10_ReassembleRejects ==
    (/\ fn \in {"reassemble", "reassemble_vector"}
     /\ Malformed(idtodelete, len(arg) + Len(idtodelete))) =>
        /\ ret.exc # "none"
        /\ ret.val = <<>>

C10_Witness ==
    /\ fn \in {"reassemble", "reassemble_vector"}
    /\ len(arg) = 1
    /\ idtodelete = <<0, 0>>
    /\ ret.exc = "IndexError"

===========================================================================
